---------------------------- MODULE Spec2Model ----------------------------
(***************************************************************************)
(* Model of src/app.py: a Streamlit script that generates a seeded         *)
(* synthetic dataset (generate_data, cached by st.cache_data), reads three *)
(* sidebar widgets, filters the dataset by date range and category, and    *)
(* renders one of three chart groups, a describe() table and a footer.     *)
(*                                                                         *)
(* Representation.  Dates are <<month, day>> pairs of the year 2023.  Real *)
(* numbers are integers: valueA is kept in units of 1 and valueB in units  *)
(* of 1/5 (field valueB5), so that values * 0.8 is exact.  The sine of     *)
(* line 51 is Bhaskara's rational approximation in integer arithmetic.     *)
(* The numpy global random stream is a linear congruential generator; a    *)
(* normal draw yields std * z with z in -2..2, a choice draw an index.     *)
(* Library calls of the charting and widget layers are external: a chart   *)
(* call is recorded with the number of rows (or cells) it was handed and   *)
(* is taken to return.  The date_input is taken to deliver ordered ranges  *)
(* within [min_value, max_value], or a one-date tuple while the user is    *)
(* half way through picking a range.  describe() is its count row.         *)
(***************************************************************************)
EXTENDS Integers, Sequences, FiniteSets, TLC

VARIABLES
    pc,          \* position of the script run: start, body positions, widgets, ...
    rng,         \* state of numpy's global random stream
    cache,       \* st.cache_data entry of generate_data: <<>> or <<dataset>>
    dates,       \* local of generate_data (line 50)
    values,      \* local of generate_data (line 53)
    valuesB,     \* column '数值B' while the dict of line 55 is being built
    cats,        \* column '类别' while the dict of line 55 is being built
    df,          \* module-level df (line 63)
    session,     \* TRUE once the session holds widget state
    date_range,  \* value of the date_input widget: a tuple of dates
    category,    \* value of the multiselect widget
    chart_type,  \* value of the selectbox widget
    filtered_df, \* line 92
    rendered,    \* the elements the current run has drawn, in order
    bodyRuns,    \* executions of generate_data's body in this process
    restarts,    \* process restarts so far
    drawLog,     \* draws of the current/last body execution, in order
    returned     \* history: what every body execution returned, and the
                 \* state of the random stream it was entered with

vars == <<pc, rng, cache, dates, values, valuesB, cats, df, session, date_range,
          category, chart_type, filtered_df, rendered, bodyRuns, restarts,
          drawLog, returned>>

----------------------------------------------------------------------------
(* Bounds of the model *)

\* process restarts explored in GenSpec
MaxRestarts == 1
\* a fresh process starts its random stream in one of 0..RngStarts
RngStarts == 1
\* rows of the datasets the filter step is applied to in FilterSpec
MaxRows == 3

----------------------------------------------------------------------------
(* Calendar: pd.date_range(start='2023-01-01', end='2023-06-30', freq='D') *)

Year == 2023
StartDate == <<1, 1>>
EndDate == <<6, 30>>

IsLeap(y) == (y % 4 = 0 /\ y % 100 # 0) \/ y % 400 = 0

MonthDays(m) ==
    IF m = 2 THEN (IF IsLeap(Year) THEN 29 ELSE 28)
    ELSE IF m \in {4, 6, 9, 11} THEN 30 ELSE 31

NextDay(d) ==
    IF d[2] < MonthDays(d[1]) THEN <<d[1], d[2] + 1>>
    ELSE IF d[1] < 12 THEN <<d[1] + 1, 1>> ELSE <<1, 1>>

\* date comparison (datetime.date ordering within the year)
DateLeq(a, b) == a[1] < b[1] \/ (a[1] = b[1] /\ a[2] <= b[2])

\* faulty variant: the end date is left out of the range
date_range_open_end(d, end) == DateLeq(d, end) /\ d # end

\* pd.date_range: is the day d still within the range ending at end (closed)?
InDateRange(d, end) == DateLeq(d, end)

----------------------------------------------------------------------------
(* The random stream *)

Seed == 42
RngMod == 65537
RngMul == 75
RngInc == 74
StdA == 5
StdB == 3

RngNext(s) == (RngMul * s + RngInc) % RngMod

\* faulty variant: the stream is not reseeded
seed_keep(prev, s) == prev

\* np.random.seed(s): the stream restarts from s whatever its state was
np_random_seed(prev, s) == s % RngMod

\* the draw taken from a state of the stream
Bits(s) == s \div 16

\* one draw of np.random.normal(0, std, n) from the state s
NormalOf(s, std) == std * ((Bits(s) % 5) - 2)

Labels == <<"type1", "type2", "type3">>
LabelSet == {Labels[i] : i \in 1..Len(Labels)}

\* faulty variant: the choice runs over a fourth label
choice_open(s) ==
    IF Bits(s) % 4 = 3 THEN "type4" ELSE Labels[(Bits(s) % 4) + 1]

\* one draw of np.random.choice(Labels, n) from the state s
ChoiceOf(s) == Labels[(Bits(s) % Len(Labels)) + 1]

----------------------------------------------------------------------------
(* generate_data, lines 47-61 *)

\* sin(4*pi*i/(n-1)) * 1000 for the zero-based index i of n points
Sin1000(i, n) ==
    LET deg  == (720 * i) \div (n - 1)
        x    == deg % 180
        p    == x * (180 - x)
        mag  == (4000 * p) \div (40500 - p)
    IN  IF (deg \div 180) % 2 = 0 THEN mag ELSE 0 - mag

\* base_values[i] (line 51), zero-based i
BaseValue(i, n) == 100 + ((50 * Sin1000(i, n)) \div 1000)

\* faulty variant: valueB built on base_values instead of the noised values
valueB5_of_base(v, base, noiseB) == 4 * base + 5 * noiseB

\* '数值B': values * 0.8 + noise, in fifths (line 58)
ValueB5(v, base, noiseB) == 4 * v + 5 * noiseB

Row(i, d, a, b5, c) ==
    [idx |-> i, date |-> d, valueA |-> a, valueB5 |-> b5, category |-> c]

\* pd.DataFrame({...}) of lines 55-60
DataFrame(ds, va, vb, cs) ==
    [i \in 1..Len(ds) |-> Row(i - 1, ds[i], va[i], vb[i], cs[i])]

\* faulty variant: generate_data without its cache
cache_miss_always(c) == FALSE

\* st.cache_data: is there an entry for generate_data()?
CacheHit(c) == c # <<>>

Draw(kind, v) == [k |-> kind, v |-> v]

\* line 63 with a cached entry: df = generate_data() returns the entry
LoadCached ==
    /\ pc = "start"
    /\ CacheHit(cache)
    /\ df' = cache[1]
    /\ pc' = "widgets"
    /\ UNCHANGED <<rng, cache, dates, values, valuesB, cats, session,
                   date_range, category, chart_type, filtered_df, rendered,
                   bodyRuns, restarts, drawLog, returned>>

\* line 63 without an entry: the body starts; line 49
BodySeed ==
    /\ pc = "start"
    /\ ~CacheHit(cache)
    /\ rng' = np_random_seed(rng, Seed)
    /\ bodyRuns' = bodyRuns + 1
    /\ drawLog' = <<Draw("seed", rng)>>
    /\ dates' = <<>> /\ values' = <<>> /\ valuesB' = <<>> /\ cats' = <<>>
    /\ pc' = "gen_dates"
    /\ UNCHANGED <<cache, df, session, date_range, category, chart_type,
                   filtered_df, rendered, restarts, returned>>

\* line 50: pd.date_range yields the next day, or ends after the last one
BodyDates ==
    /\ pc = "gen_dates"
    /\ LET d == IF dates = <<>> THEN StartDate ELSE NextDay(dates[Len(dates)])
       IN  IF InDateRange(d, EndDate)
           THEN dates' = Append(dates, d) /\ pc' = pc
           ELSE dates' = dates /\ pc' = "gen_noiseA"
    /\ UNCHANGED <<rng, cache, values, valuesB, cats, df, session, date_range,
                   category, chart_type, filtered_df, rendered, bodyRuns,
                   restarts, drawLog, returned>>

\* lines 51-53: np.random.normal(0, 5, n) takes its next draw, or is done
BodyValues ==
    /\ pc = "gen_noiseA"
    /\ LET n == Len(dates)
           i == Len(values)
           s == RngNext(rng)
       IN  IF i < n
           THEN /\ rng' = s
                /\ values' = Append(values, BaseValue(i, n) + NormalOf(s, StdA))
                /\ drawLog' = Append(drawLog, Draw("A", NormalOf(s, StdA)))
                /\ pc' = pc
           ELSE /\ pc' = "gen_noiseB"
                /\ UNCHANGED <<rng, values, drawLog>>
    /\ UNCHANGED <<cache, dates, valuesB, cats, df, session, date_range,
                   category, chart_type, filtered_df, rendered, bodyRuns,
                   restarts, returned>>

\* line 58: np.random.normal(0, 3, n) takes its next draw, or is done
BodyValuesB ==
    /\ pc = "gen_noiseB"
    /\ LET n == Len(dates)
           i == Len(valuesB)
           s == RngNext(rng)
       IN  IF i < n
           THEN /\ rng' = s
                /\ valuesB' = Append(valuesB,
                       ValueB5(values[i + 1], BaseValue(i, n), NormalOf(s, StdB)))
                /\ drawLog' = Append(drawLog, Draw("B", NormalOf(s, StdB)))
                /\ pc' = pc
           ELSE /\ pc' = "gen_category"
                /\ UNCHANGED <<rng, valuesB, drawLog>>
    /\ UNCHANGED <<cache, dates, values, cats, df, session, date_range,
                   category, chart_type, filtered_df, rendered, bodyRuns,
                   restarts, returned>>

\* line 59: np.random.choice(labels, n) takes its next draw, or is done
BodyCategory ==
    /\ pc = "gen_category"
    /\ LET n == Len(dates)
           i == Len(cats)
           s == RngNext(rng)
       IN  IF i < n
           THEN /\ rng' = s
                /\ cats' = Append(cats, ChoiceOf(s))
                /\ drawLog' = Append(drawLog, Draw("C", ChoiceOf(s)))
                /\ pc' = pc
           ELSE /\ pc' = "gen_return"
                /\ UNCHANGED <<rng, cats, drawLog>>
    /\ UNCHANGED <<cache, dates, values, valuesB, df, session, date_range,
                   category, chart_type, filtered_df, rendered, bodyRuns,
                   restarts, returned>>

\* lines 55-61, and the decorator storing the result and handing it back
BodyReturn ==
    /\ pc = "gen_return"
    /\ LET out == DataFrame(dates, values, valuesB, cats)
       IN  /\ cache' = <<out>>
           /\ df' = out
           /\ returned' = returned \cup {[entry |-> drawLog[1].v, data |-> out]}
    /\ dates' = <<>> /\ values' = <<>> /\ valuesB' = <<>> /\ cats' = <<>>
    /\ pc' = "widgets"
    /\ UNCHANGED <<rng, session, date_range, category, chart_type,
                   filtered_df, rendered, bodyRuns, restarts, drawLog>>

----------------------------------------------------------------------------
(* Sidebar widgets, lines 71-88 *)

ChartTypes == <<"combined", "advanced", "distribution">>

\* the earlier and the later of two dates
DateMin(a, b) == IF DateLeq(a, b) THEN a ELSE b
DateMax(a, b) == IF DateLeq(a, b) THEN b ELSE a

\* df['日期'].min() over the rows lo..hi
RECURSIVE MinDateIn(_, _, _)
MinDateIn(d, lo, hi) ==
    IF lo = hi THEN d[lo].date
    ELSE LET mid == (lo + hi) \div 2
         IN  DateMin(MinDateIn(d, lo, mid), MinDateIn(d, mid + 1, hi))

\* df['日期'].max() over the rows lo..hi
RECURSIVE MaxDateIn(_, _, _)
MaxDateIn(d, lo, hi) ==
    IF lo = hi THEN d[lo].date
    ELSE LET mid == (lo + hi) \div 2
         IN  DateMax(MaxDateIn(d, lo, mid), MaxDateIn(d, mid + 1, hi))

MinDate(d) == MinDateIn(d, 1, Len(d))
MaxDate(d) == MaxDateIn(d, 1, Len(d))

\* df['类别'].unique()
Unique(d) == {d[i].category : i \in 1..Len(d)}

\* the dates a user picks in the calendar of the date_input
PickDates == {<<1, 1>>, <<1, 7>>, <<2, 1>>, <<3, 1>>, <<6, 30>>}

\* what the date_input hands to the script: the selected range, or a tuple
\* with only the start date while the user has not picked the end yet
PickerValues(d) ==
    LET lo == MinDate(d)
        hi == MaxDate(d)
        ok == {x \in PickDates : DateLeq(lo, x) /\ DateLeq(x, hi)}
    IN  {p \in ok \X ok : DateLeq(p[1], p[2])}
        \cup {<<a>> : a \in ok}

\* lines 71-88: a widget of a new session takes its default, a widget of a
\* running session keeps the value the user gave it
Widgets ==
    /\ pc = "widgets"
    /\ IF session
       THEN UNCHANGED <<date_range, category, chart_type>>
       ELSE /\ date_range' = <<MinDate(df), MaxDate(df)>>
            /\ category' = Unique(df)
            /\ chart_type' = ChartTypes[1]
    /\ session' = TRUE
    /\ pc' = "filter"
    /\ UNCHANGED <<rng, cache, dates, values, valuesB, cats, df, filtered_df,
                   rendered, bodyRuns, restarts, drawLog, returned>>

----------------------------------------------------------------------------
(* The filter step, lines 91-92 *)

\* faulty variant: date < date_range[1]
date_mask_open_end(d, dr) ==
    DateLeq(dr[1], d) /\ DateLeq(d, dr[2]) /\ d # dr[2]

\* faulty variant: an inverted range is put in order first
date_mask_sorted(d, dr) ==
    IF DateLeq(dr[1], dr[2])
    THEN DateLeq(dr[1], d) /\ DateLeq(d, dr[2])
    ELSE DateLeq(dr[2], d) /\ DateLeq(d, dr[1])

\* (date >= date_range[0]) & (date <= date_range[1]) for one row
DateMask(d, dr) == DateLeq(dr[1], d) /\ DateLeq(d, dr[2])

\* faulty variant: an empty selection accepts every category
isin_empty_is_all(c, sel) == sel = {} \/ c \in sel

\* Series.isin for one row
IsIn(c, sel) == c \in sel

\* df[m]: boolean indexing keeps the rows lo..hi whose mask is True, in order
RECURSIVE BoolIndex(_, _, _, _)
BoolIndex(d, m, lo, hi) ==
    IF lo > hi THEN <<>>
    ELSE IF lo = hi THEN (IF m[lo] THEN <<d[lo]>> ELSE <<>>)
    ELSE LET mid == (lo + hi) \div 2
         IN  BoolIndex(d, m, lo, mid) \o BoolIndex(d, m, mid + 1, hi)

FilterDf(d, dr, sel) ==
    LET mask == [i \in 1..Len(d) |-> DateMask(d[i].date, dr)]
        both == [i \in 1..Len(d) |-> mask[i] /\ IsIn(d[i].category, sel)]
    IN  BoolIndex(d, both, 1, Len(d))

\* lines 91-92; date_range[1] of a one-element tuple raises IndexError
Filter ==
    /\ pc = "filter"
    /\ \/ /\ Len(date_range) >= 2
          /\ filtered_df' = FilterDf(df, date_range, category)
          /\ pc' = "dispatch"
       \/ /\ Len(date_range) < 2
          /\ filtered_df' = filtered_df
          /\ pc' = "error"
    /\ UNCHANGED <<rng, cache, dates, values, valuesB, cats, df, session, date_range,
                   category, chart_type, rendered, bodyRuns, restarts, drawLog,
                   returned>>

----------------------------------------------------------------------------
(* Rendering, lines 95-190 *)

El(name, n) == [el |-> name, n |-> n]

\* 2023-01-01 is a Sunday: 0 = Sunday .. 6 = Saturday
Ordinal0(d) ==
    LET RECURSIVE Before(_)
        Before(m) == IF m = 1 THEN 0 ELSE MonthDays(m - 1) + Before(m - 1)
    IN  Before(d[1]) + d[2] - 1

DayName(d) == Ordinal0(d) % 7

\* the cells of pivot_table(index=day_name, columns=month), lines 133-138
PivotCells(v) == {<<DayName(v[i].date), v[i].date[1]>> : i \in 1..Len(v)}

\* faulty variant: no chart is drawn for an empty view
charts_skip_empty(ct, v) ==
    IF v = <<>> THEN <<>>
    ELSE IF ct = "combined"
    THEN <<El("line", Len(v)), El("scatter", Len(v)),
           El("histogram", Len(v)), El("box", Len(v))>>
    ELSE IF ct = "advanced"
    THEN <<El("heatmap", Cardinality(PivotCells(v))), El("scatter_3d", Len(v))>>
    ELSE <<El("violin", Len(v)), El("density_contour", Len(v))>>

\* the charts of the selected branch, in the order they are drawn
Charts(ct, v) ==
    IF ct = "combined"
    THEN <<El("line", Len(v)), El("scatter", Len(v)),
           El("histogram", Len(v)), El("box", Len(v))>>
    ELSE IF ct = "advanced"
    THEN <<El("heatmap", Cardinality(PivotCells(v))), El("scatter_3d", Len(v))>>
    ELSE <<El("violin", Len(v)), El("density_contour", Len(v))>>

\* lines 95-127
RenderCombined ==
    /\ pc = "dispatch"
    /\ chart_type = "combined"
    /\ rendered' = rendered \o Charts(chart_type, filtered_df)
    /\ pc' = "stats"
    /\ UNCHANGED <<rng, cache, dates, values, valuesB, cats, df, session, date_range,
                   category, chart_type, filtered_df, bodyRuns, restarts,
                   drawLog, returned>>

\* lines 129-152
RenderAdvanced ==
    /\ pc = "dispatch"
    /\ chart_type # "combined"
    /\ chart_type = "advanced"
    /\ rendered' = rendered \o Charts(chart_type, filtered_df)
    /\ pc' = "stats"
    /\ UNCHANGED <<rng, cache, dates, values, valuesB, cats, df, session, date_range,
                   category, chart_type, filtered_df, bodyRuns, restarts,
                   drawLog, returned>>

\* lines 154-172
RenderDistribution ==
    /\ pc = "dispatch"
    /\ chart_type # "combined"
    /\ chart_type # "advanced"
    /\ rendered' = rendered \o Charts(chart_type, filtered_df)
    /\ pc' = "stats"
    /\ UNCHANGED <<rng, cache, dates, values, valuesB, cats, df, session, date_range,
                   category, chart_type, filtered_df, bodyRuns, restarts,
                   drawLog, returned>>

\* lines 175-178: the count row of filtered_df.describe()
Stats ==
    /\ pc = "stats"
    /\ rendered' = Append(rendered, El("describe", Len(filtered_df)))
    /\ pc' = "footer"
    /\ UNCHANGED <<rng, cache, dates, values, valuesB, cats, df, session, date_range,
                   category, chart_type, filtered_df, bodyRuns, restarts,
                   drawLog, returned>>

\* lines 181-190
Footer ==
    /\ pc = "footer"
    /\ rendered' = Append(rendered, El("footer", 0))
    /\ pc' = "done"
    /\ UNCHANGED <<rng, cache, dates, values, valuesB, cats, df, session, date_range,
                   category, chart_type, filtered_df, bodyRuns, restarts,
                   drawLog, returned>>

----------------------------------------------------------------------------
(* The user and the process *)

Rerun ==
    /\ pc \in {"done", "error"}
    /\ pc' = "start"
    /\ filtered_df' = <<>>
    /\ rendered' = <<>>
    /\ UNCHANGED <<rng, cache, dates, values, valuesB, cats, df, session, bodyRuns,
                   restarts, drawLog, returned>>

\* the user changes the date range: the script reruns
UserSetDateRange ==
    /\ Rerun
    /\ \E v \in PickerValues(df) : v # date_range /\ date_range' = v
    /\ UNCHANGED <<category, chart_type>>

\* the user changes the selected categories: the script reruns
UserSetCategory ==
    /\ Rerun
    /\ \E s \in SUBSET Unique(df) : s # category /\ category' = s
    /\ UNCHANGED <<date_range, chart_type>>

\* the user changes the chart type: the script reruns
UserSetChart ==
    /\ Rerun
    /\ \E i \in 1..Len(ChartTypes) :
          ChartTypes[i] # chart_type /\ chart_type' = ChartTypes[i]
    /\ UNCHANGED <<date_range, category>>

\* the process is restarted: cache and session are gone, the random stream
\* of the new process is in an arbitrary state
Restart ==
    /\ restarts < MaxRestarts
    /\ restarts' = restarts + 1
    /\ rng' \in 0..RngStarts
    /\ pc' = "start"
    /\ cache' = <<>> /\ df' = <<>>
    /\ dates' = <<>> /\ values' = <<>> /\ valuesB' = <<>> /\ cats' = <<>>
    /\ session' = FALSE
    /\ date_range' = <<>> /\ category' = {} /\ chart_type' = ChartTypes[1]
    /\ filtered_df' = <<>> /\ rendered' = <<>>
    /\ bodyRuns' = 0
    /\ drawLog' = <<>>
    /\ UNCHANGED returned

Init ==
    /\ pc = "start"
    /\ rng \in 0..RngStarts
    /\ cache = <<>> /\ df = <<>>
    /\ dates = <<>> /\ values = <<>> /\ valuesB = <<>> /\ cats = <<>>
    /\ session = FALSE
    /\ date_range = <<>> /\ category = {} /\ chart_type = ChartTypes[1]
    /\ filtered_df = <<>> /\ rendered = <<>>
    /\ bodyRuns = 0 /\ restarts = 0
    /\ drawLog = <<>>
    /\ returned = {}

Next ==
    \/ LoadCached
    \/ BodySeed
    \/ BodyDates
    \/ BodyValues
    \/ BodyValuesB
    \/ BodyCategory
    \/ BodyReturn
    \/ Widgets
    \/ Filter
    \/ RenderCombined
    \/ RenderAdvanced
    \/ RenderDistribution
    \/ Stats
    \/ Footer
    \/ UserSetDateRange
    \/ UserSetCategory
    \/ UserSetChart

\* one session in one process
Spec == Init /\ [][Next]_vars

----------------------------------------------------------------------------
(* generate_data across process restarts *)

GenNext ==
    \/ BodySeed
    \/ BodyDates
    \/ BodyValues
    \/ BodyValuesB
    \/ BodyCategory
    \/ BodyReturn
    \/ Restart

GenSpec == Init /\ [][GenNext]_vars

----------------------------------------------------------------------------
(* The filter step as a function of its inputs: any dataset, any range *)

FilterDates == {<<2, 1>>, <<2, 28>>, <<3, 1>>}

FilterFrames ==
    UNION {{[i \in 1..n |-> Row(i - 1, f[i][1], 0, 0, f[i][2])] :
                f \in [1..n -> FilterDates \X LabelSet]} : n \in 0..MaxRows}

FilterInit ==
    /\ pc = "filter"
    /\ df \in FilterFrames
    /\ date_range \in (FilterDates \X FilterDates) \cup {<<a>> : a \in FilterDates}
    /\ category \in SUBSET LabelSet
    /\ rng = 0
    /\ cache = <<>>
    /\ dates = <<>> /\ values = <<>> /\ valuesB = <<>> /\ cats = <<>>
    /\ session = TRUE
    /\ chart_type = ChartTypes[1]
    /\ filtered_df = <<>> /\ rendered = <<>>
    /\ bodyRuns = 0 /\ restarts = 0
    /\ drawLog = <<>>
    /\ returned = {}

FilterSpec == FilterInit /\ [][Filter]_vars


----------------------------------------------------------------------------
(* Properties *)

\* days since 2023-01-01
Ord(d) == Ordinal0(d)

Accepts(r, dr, sel) ==
    Ord(dr[1]) <= Ord(r.date) /\ Ord(r.date) <= Ord(dr[2]) /\ r.category \in sel

\* C1: the filtered view is exactly the sub-sequence of the dataset's rows
\* with start <= date <= end and category in the accepted set: every row of
\* the view is such a row of the dataset, every such row is in the view
\* exactly once, and the view keeps the dataset's order.
C1_FilterExact ==
    pc = "dispatch" =>
        /\ \A i \in 1..Len(filtered_df) :
              /\ filtered_df[i].idx + 1 \in 1..Len(df)
              /\ filtered_df[i] = df[filtered_df[i].idx + 1]
              /\ Accepts(filtered_df[i], date_range, category)
        /\ \A j \in 1..Len(df) :
              Accepts(df[j], date_range, category) =>
                  Cardinality({i \in 1..Len(filtered_df) :
                                   filtered_df[i].idx = df[j].idx}) = 1
        /\ \A i \in 1..(Len(filtered_df) - 1) :
              filtered_df[i].idx < filtered_df[i + 1].idx

\* three rows, the middle one rejected, the last one dated on the end date
C1_Witness ==
    /\ pc = "dispatch"
    /\ Len(df) = 3
    /\ Len(filtered_df) = 2
    /\ filtered_df[1].idx = 0
    /\ filtered_df[2].idx = 2
    /\ filtered_df[2].date = date_range[2]
    /\ filtered_df[1].date = date_range[1]
    /\ date_range[1] # date_range[2]

\* C2: the filter step given an inverted range (start > end) yields the
\* empty view and does not raise, whatever the accepted set.
C2_InvertedEmpty ==
    (/\ pc # "filter"
     /\ Len(date_range) = 2
     /\ Ord(date_range[1]) > Ord(date_range[2])) =>
        (pc = "dispatch" /\ filtered_df = <<>>)

\* start 03-01, end 02-01, and a row of an accepted category dated between
C2_Witness ==
    /\ pc = "dispatch"
    /\ date_range = <<(<<3, 1>>), (<<2, 1>>)>>
    /\ \E j \in 1..Len(df) : df[j].date = <<2, 28>> /\ df[j].category \in category
    /\ filtered_df = <<>>

\* C3: with an empty accepted-category set the filtered view is empty, for
\* every date range.
C3_NoCategoryEmpty ==
    (pc = "dispatch" /\ category = {}) => filtered_df = <<>>

\* nothing accepted although a row lies within the date range
C3_Witness ==
    /\ pc = "dispatch"
    /\ category = {}
    /\ \E j \in 1..Len(df) :
          DateLeq(date_range[1], df[j].date) /\ DateLeq(df[j].date, date_range[2])
    /\ filtered_df = <<>>

\* C4: every execution of generate_data's body returns the same dataset,
\* whatever state the random stream was in when it was entered.
C4_Deterministic ==
    \A a, b \in returned : a.data = b.data

\* two executions entered with the random stream in different states
C4_Witness ==
    \E a, b \in returned : a.entry # b.entry /\ Len(a.data) > 0

\* C5: the dataset has (end - start).days + 1 = 181 rows, one per calendar
\* day of the range, row i dated start + i days, dates strictly increasing.
C5_OnePerDay ==
    cache # <<>> =>
        LET d == cache[1] IN
        /\ Len(d) = Ord(EndDate) - Ord(StartDate) + 1
        /\ Len(d) = 181
        /\ \A i \in 1..Len(d) :
              /\ d[i].date[1] \in 1..12
              /\ d[i].date[2] \in 1..MonthDays(d[i].date[1])
              /\ Ord(d[i].date) = Ord(StartDate) + (i - 1)
        /\ \A i \in 1..(Len(d) - 1) :
              DateLeq(d[i].date, d[i + 1].date) /\ d[i].date # d[i + 1].date
        /\ d[1].date = StartDate
        /\ d[Len(d)].date = EndDate

C5_Witness ==
    /\ pc = "done"
    /\ cache # <<>>
    /\ df = cache[1]
    /\ Len(df) > 0

\* C6: every row of the dataset and of every filtered view carries one of
\* the three labels, and the multiselect's options and selection are
\* subsets of the three labels.
C6_ClosedLabels ==
    /\ \A i \in 1..Len(cats) : cats[i] \in {"type1", "type2", "type3"}
    /\ \A i \in 1..Len(df) : df[i].category \in {"type1", "type2", "type3"}
    /\ \A i \in 1..Len(filtered_df) :
          filtered_df[i].category \in {"type1", "type2", "type3"}
    /\ cache # <<>> =>
          \A i \in 1..Len(cache[1]) :
              cache[1][i].category \in {"type1", "type2", "type3"}
    /\ df # <<>> => Unique(df) \subseteq {"type1", "type2", "type3"}
    /\ category \subseteq {"type1", "type2", "type3"}

\* a finished run whose view holds rows of all three labels
C6_Witness ==
    /\ pc = "done"
    /\ Unique(filtered_df) = {"type1", "type2", "type3"}
    /\ category = {"type1", "type2", "type3"}

\* C7: within a process the body of generate_data runs at most once; every
\* run of the script past line 63 reads the cached dataset; and no step
\* changes the cached dataset once it is there (the filter, the charts and
\* the statistics leave it alone).
C7_GeneratedOnce ==
    /\ [](bodyRuns <= 1)
    /\ [](pc \in {"widgets", "filter", "dispatch", "stats", "footer", "done",
                  "error"} => (cache # <<>> /\ df = cache[1]))
    /\ [][cache # <<>> => (cache' = cache /\ bodyRuns' = bodyRuns)]_vars

\* a rerun after a user interaction, served from the cache
C7_Witness ==
    /\ pc = "done"
    /\ bodyRuns = 1
    /\ chart_type = "advanced"
    /\ Len(date_range) = 2
    /\ date_range[1] # StartDate
    /\ df = cache[1]
    /\ Len(filtered_df) < Len(df)

DrawRank(k) == IF k = "seed" THEN 0 ELSE IF k = "A" THEN 1
               ELSE IF k = "B" THEN 2 ELSE 3

DrawCount(k) == Cardinality({i \in 1..Len(drawLog) : drawLog[i].k = k})

\* C9: within one execution of the body the stream is seeded first, then
\* come the n valueA draws (std 5), then the n valueB draws (std 3), then the
\* n category draws, 3n draws in all and no draw of a later group before the
\* last draw of an earlier one; and valueB(i) = 0.8 * valueA(i) + noise'_i
\* with the noised valueA(i).
C9_DrawOrder ==
    LET n == IF pc \in {"gen_noiseA", "gen_noiseB", "gen_category", "gen_return"}
             THEN Len(dates)
             ELSE IF cache # <<>> THEN Len(cache[1]) ELSE 0
    IN
    /\ drawLog # <<>> => drawLog[1].k = "seed"
    /\ DrawCount("seed") <= 1
    /\ \A i \in 1..(Len(drawLog) - 1) :
          DrawRank(drawLog[i].k) <= DrawRank(drawLog[i + 1].k)
    /\ DrawCount("B") > 0 => DrawCount("A") = n
    /\ DrawCount("C") > 0 => DrawCount("B") = n
    /\ DrawCount("A") <= n /\ DrawCount("B") <= n /\ DrawCount("C") <= n
    /\ \A i \in 1..Len(drawLog) :
          /\ drawLog[i].k = "A" => drawLog[i].v \in {5 * z : z \in -2..2}
          /\ drawLog[i].k = "B" => drawLog[i].v \in {3 * z : z \in -2..2}
    /\ cache # <<>> =>
          /\ Len(drawLog) = 3 * n + 1
          /\ \A i \in 1..n :
                /\ drawLog[1 + i].k = "A"
                /\ drawLog[1 + n + i].k = "B"
                /\ drawLog[1 + 2 * n + i].k = "C"
                /\ cache[1][i].valueA = BaseValue(i - 1, n) + drawLog[1 + i].v
                /\ cache[1][i].valueB5 =
                       4 * cache[1][i].valueA + 5 * drawLog[1 + n + i].v
                /\ cache[1][i].category = drawLog[1 + 2 * n + i].v

\* a returned dataset whose valueA and valueB both carry noise
C9_Witness ==
    /\ pc = "widgets"
    /\ cache # <<>>
    /\ Len(drawLog) = 3 * Len(cache[1]) + 1
    /\ \E i \in 1..Len(cache[1]) :
          /\ drawLog[1 + i].v # 0
          /\ drawLog[1 + Len(cache[1]) + i].v # 0

\* C10: whatever the date picker hands over, the filter step receives a
\* start and an end date and the run does not raise.
C10_PickerNeverRaises ==
    /\ pc = "filter" => Len(date_range) = 2
    /\ pc # "error"

============================================================================
